---------------------------- MODULE Spec2Model ----------------------------
(***************************************************************************)
(* The partial-message join engine of joins/joiner.py: make_joining_func   *)
(* (the construction guard) and the processor_function it returns (fetch,  *)
(* merge, write, re-read, sufficiency test, process + evict or incomplete  *)
(* handler), run against the dict-backed DummyTable and the callables of   *)
(* tests/test_joiner.py.                                                   *)
(***************************************************************************)
EXTENDS Integers, Sequences, FiniteSets, TLC

(***************************************************************************)
(* Bounds and data.                                                        *)
(***************************************************************************)

\* How many of the strings of StrPool the thing_one field may hold.
MaxStrs == 3

\* Python's None, as a field value and as the store's `default`.
None == "None"

\* The strings thing_one may hold: the empty string (falsy in Python) and
\* payloads of the test messages.
StrPool == <<"", "one fish", "sam", "I am">>

\* thing_one: None or a string of the pool.
ThingOneVals == {None} \cup {StrPool[i] : i \in 1..MaxStrs}

\* thing_two: None or the payload of message_1_2.
ThingTwoVals == {None, "two fish"}

\* The two record ids of the test (m1_uuid, m2_uuid).
Keys == {"m1_uuid", "m2_uuid"}

\* TestMessageFormat: the fragments delivered to the processor.
Fragments == [thing_id : Keys, thing_one : ThingOneVals, thing_two : ThingTwoVals]

\* Values of the store's `default` attribute: None, the empty dict the test
\* sets (falsy but not None), and a factory such as `list` (truthy).
Defaults == {None, "{}", "list"}

\* Python truthiness of a field value or of a `default`.
Truthy(v) == v \notin {None, "", "{}"}

\* Python's `a or b`.
PyOr(a, b) == IF Truthy(a) THEN a ELSE b

(***************************************************************************)
(* The caller-supplied callables.                                          *)
(***************************************************************************)

\* key_fn = lambda r: r.thing_id
key_fn(r) == r.thing_id

\* None where a message is expected.
NoMessage == [is_none |-> TRUE]

\* merge_fn = merge_things: a None second argument stands for the first; the
\* result is a TestStorageFormat built field by field, the first argument's
\* field when truthy, else the second's.
merge_fn(t1, t2) ==
    LET other == IF t2 = NoMessage THEN t1 ELSE t2 IN
    [thing_id   |-> t1.thing_id,
     thing_one  |-> PyOr(t1.thing_one, other.thing_one),
     thing_two  |-> PyOr(t1.thing_two, other.thing_two),
     cat_in_hat |-> TRUE]

\* sufficiency_fn = things_both_there: all([thing_one, thing_two]).
sufficiency_fn(record) == Truthy(record.thing_one) /\ Truthy(record.thing_two)

\* The result of a callable the engine treats as opaque.
ResultOf(fn, message) == [result_of |-> fn, arg |-> <<message>>]

\* None as the result of a call.
NoneValue == [result_of |-> "None", arg |-> <<>>]

\* process_fn: opaque business logic; its result is whatever it returns for
\* the message it was given.
process_fn(message) == ResultOf("process_fn", message)

\* handle_incomplete_fn, when the caller supplies one: opaque as well.
handle_incomplete_fn(message) == ResultOf("handle_incomplete_fn", message)

\* Which callable the environment makes raise during a call, if any.
FailModes == {"none", "merge_fn", "sufficiency_fn", "process_fn",
              "incomplete_handler"}

\* The error a caller-supplied callable raises.
CallableError(fn) == [exc |-> "Exception", raised_by |-> fn]

(***************************************************************************)
(* The store: DummyTable, a dict with a `default` attribute.  A table is a *)
(* function whose domain is the set of keys present.                       *)
(***************************************************************************)

EmptyTable == [k \in {} |-> None]

\* tbl.get(k): the fallback argument is forgotten, an absent key gives None.
TblGetNoFallback(t, k, d) == IF k \in DOMAIN t THEN t[k] ELSE NoMessage

\* The lookup never finds an entry: every fragment counts as a first arrival.
TblGetIgnoresStore(t, k, d) == d

\* tbl.get(k, d)
TblGet(t, k, d) == IF k \in DOMAIN t THEN t[k] ELSE d

\* The write replaces the whole store by the one entry.
TblSetOnly(t, k, v) == [j \in {k} |-> v]

\* tbl[k] = v
TblSet(t, k, v) == [j \in DOMAIN t \cup {k} |-> IF j = k THEN v ELSE t[j]]

\* tbl[k]
TblItem(t, k) == t[k]

\* The eviction is left out.
TblPopNothing(t, k) == t

\* tbl.clear(): the eviction takes every key's entry with it.
TblPopAll(t, k) == EmptyTable

\* tbl.pop(k)
TblPop(t, k) == [j \in DOMAIN t \ {k} |-> t[j]]

\* len(tbl)
TblLen(t) == Cardinality(DOMAIN t)

\* What a schema-enforcing store makes of a value when it persists it: a
\* blank thing_one becomes None.
Normalize(v) == [v EXCEPT !.thing_one = IF @ = "" THEN None ELSE @]

\* tbl[k] = v on a store of the given kind: a dict keeps the value as given,
\* a normalizing store keeps what it makes of it.
StoreWrite(kind, t, k, v) ==
    TblSet(t, k, IF kind = "normalizing" THEN Normalize(v) ELSE v)


(***************************************************************************)
(* State.                                                                  *)
(***************************************************************************)

VARIABLES
    tbl,          \* the join store's contents (DummyTable)
    tbl_default,  \* the store's `default` attribute
    processor,    \* the processor the caller holds (my_thing_merger), if any
    last,         \* the last call made to the engine and what came of it
    acc,          \* per key, the composite accumulated since its last eviction
    pending,      \* keys whose sufficient composite a failing callable left unprocessed
    iso,          \* per key, the store that sees that key's submits alone
    store_kind,   \* "dict" (DummyTable) or "normalizing" (coerces on write)
    steps,        \* the submits of the test's scenario, each with len(tbl) after it
    conc          \* two submits run step by step by concurrent workers

vars == <<tbl, tbl_default, processor, last, acc, pending, iso,
          store_kind, steps, conc>>

NoProcessor == [built |-> FALSE]

\* No concurrent workers are running.
NoWorkers == [running |-> FALSE]

Return(v) == [kind |-> "return", value |-> v]

Raised(e) == [kind |-> "raise", exc |-> e]

Call(fn, args) == [fn |-> fn, args |-> args]

(***************************************************************************)
(* make_joining_func: the construction guard.                              *)
(***************************************************************************)

\* The ways the caller may pass process_fn and handle_incomplete_fn: each is
\* supplied, or left out of the call; handle_incomplete_fn may also be
\* passed as None.
CallShapes == [process_fn : {"supplied", "omitted"},
               handle_incomplete_fn : {"supplied", "None", "omitted"}]

\* Python binds the call's arguments to the signature before the body runs:
\* neither process_fn nor handle_incomplete_fn has a default value.
Bound(call) == call.process_fn # "omitted" /\ call.handle_incomplete_fn # "omitted"

\* if tbl.default: a truthiness test in place of the identity test.
DefaultIsTruthy(d) == Truthy(d)

\* if tbl.default is not None
DefaultIsSet(d) == d # None

\* incomplete_handler = handle_incomplete_fn or (lambda r: None)
incomplete_handler(call) ==
    IF call.handle_incomplete_fn = "supplied" THEN "handle_incomplete_fn" ELSE "lambda"

\* What a call of make_joining_func comes to.
MakeOutcome(d, call) ==
    IF ~Bound(call) THEN Raised([exc |-> "TypeError"])
    ELSE IF DefaultIsSet(d) THEN Raised([exc |-> "TableJoinDefaultException"])
    ELSE Return([built |-> TRUE, incomplete_handler |-> incomplete_handler(call)])

make_joining_func(call) ==
    LET outcome == MakeOutcome(tbl_default, call) IN
    /\ processor' = IF outcome.kind = "return" THEN outcome.value ELSE processor
    /\ last' = [op |-> "make_joining_func", default |-> tbl_default,
                call |-> call, outcome |-> outcome]
    /\ UNCHANGED <<tbl, tbl_default, acc, pending, iso, store_kind, steps, conc>>

\* The caller sets the store's default (dummy_tbl.default = {} / = None).
SetDefault(d) ==
    /\ d # tbl_default
    /\ tbl_default' = d
    /\ UNCHANGED <<tbl, processor, last, acc, pending, iso, store_kind, steps, conc>>

(***************************************************************************)
(* processor_function: one submit.                                         *)
(***************************************************************************)

\* The error is caught and wrapped with the key.
PropagateWrapped(e, k) == [exc |-> "CallableFailure", cause |-> e, key |-> k]

\* processor_function has no try/except: an error raised by a callable leaves
\* the call as it was raised.
Propagate(e, k) == e

\* merge_fn(extant_message, new_message): the arguments are swapped.
MergeArgumentsSwapped(new_message, extant_message) == <<extant_message, new_message>>

\* merge_fn(new_message, extant_message): the arguments of the merge.
MergeArguments(new_message, extant_message) == <<new_message, extant_message>>

\* updated_message = the result of merge_fn, the store is not read again.
UpdatedFromMerge(t, k, merged) == merged

\* updated_message = tbl[k]: read again after the write.
Updated(t, k, merged) == TblItem(t, k)

\* The write is undone when a callable raises after it.
StoreAfterRaiseRolledBack(before, written) == before

\* Nothing undoes the write of line 77 when a callable raises after it.
StoreAfterRaise(before, written) == written

\* processor_function looks at tbl.default again and refuses a set one.
RefusesDefaultAtSubmit(d) == d # None

\* processor_function never looks at tbl.default.
RefusesDefault(d) == FALSE

\* The sufficiency test is skipped: every updated message is processed.
TakesProcessBranchAlways(new_message, updated_message) == TRUE

\* if sufficiency_fn(new_message): the fragment is tested, not the composite.
TakesProcessBranchOnFragment(new_message, updated_message) ==
    sufficiency_fn(new_message)

\* if sufficiency_fn(updated_message): ... process and evict
TakesProcessBranch(new_message, updated_message) == sufficiency_fn(updated_message)

\* process_fn(new_message): the fragment is processed, not the composite.
ProcessArgumentFragment(new_message, updated_message) == new_message

\* process_fn(updated_message): the message handed to process_fn.
ProcessArgument(new_message, updated_message) == updated_message

\* The default handler is lambda r: r.
RunIncompleteHandlerEcho(handler, updated_message) ==
    IF handler = "handle_incomplete_fn" THEN handle_incomplete_fn(updated_message)
    ELSE updated_message

\* incomplete_handler(updated_message)
RunIncompleteHandler(handler, updated_message) ==
    IF handler = "handle_incomplete_fn" THEN handle_incomplete_fn(updated_message)
    ELSE NoneValue

\* Whether the callable fn raises in a call in which the environment makes
\* `fail` raise; the default lambda of the engine never raises.
Fails(fail, fn, handler) ==
    /\ fail = fn
    /\ (fn = "incomplete_handler" => handler = "handle_incomplete_fn")

\* The body of processor_function on store t: the store it leaves, the
\* callables it invoked, in order, with their arguments, and its outcome.
Run(t, handler, new_message, fail) ==
    LET k == key_fn(new_message)
        extant_message == TblGet(t, k, new_message)
        margs == MergeArguments(new_message, extant_message)
        c1 == <<Call("merge_fn", margs)>>
        merged == merge_fn(margs[1], margs[2])
        t1 == StoreWrite(store_kind, t, k, merged)
        updated_message == Updated(t1, k, merged)
        c2 == Append(c1, Call("sufficiency_fn", <<updated_message>>))
        processed == ProcessArgument(new_message, updated_message)
        c3 == Append(c2, Call("process_fn", <<processed>>))
        c4 == Append(c2, Call("incomplete_handler", <<updated_message>>))
        Raise(fn) == Raised(Propagate(CallableError(fn), k))
        kept == StoreAfterRaise(t, t1)
    IN  IF RefusesDefault(tbl_default)
        THEN [tbl |-> t, calls |-> <<>>,
              outcome |-> Raised([exc |-> "TableJoinDefaultException"])]
        ELSE IF Fails(fail, "merge_fn", handler)
        THEN [tbl |-> t, calls |-> c1, outcome |-> Raise("merge_fn")]
        ELSE IF Fails(fail, "sufficiency_fn", handler)
        THEN [tbl |-> kept, calls |-> c2, outcome |-> Raise("sufficiency_fn")]
        ELSE IF TakesProcessBranch(new_message, updated_message)
        THEN IF Fails(fail, "process_fn", handler)
             THEN [tbl |-> kept, calls |-> c3, outcome |-> Raise("process_fn")]
             ELSE [tbl |-> TblPop(t1, k), calls |-> c3,
                   outcome |-> Return(process_fn(processed))]
        ELSE IF Fails(fail, "incomplete_handler", handler)
             THEN [tbl |-> kept, calls |-> c4, outcome |-> Raise("incomplete_handler")]
             ELSE [tbl |-> t1, calls |-> c4,
                   outcome |-> Return(RunIncompleteHandler(handler, updated_message))]

\* Whether key k was evicted by its latest submit: its accumulated composite
\* is sufficient and no failure left it unprocessed.
Evicted(k) == k \in DOMAIN acc /\ k \notin pending /\ sufficiency_fn(acc[k])

processor_function(new_message, fail) ==
    LET k == key_fn(new_message)
        handler == processor.incomplete_handler
        r == Run(tbl, handler, new_message, fail)
        alone == Run(iso[k], handler, new_message, fail)
        written == ~Fails(fail, "merge_fn", handler)
        prior == IF k \in DOMAIN acc /\ ~Evicted(k) THEN acc[k] ELSE new_message
        composite == merge_fn(new_message, prior)
    IN  /\ processor.built
        /\ fail # "none" => r.outcome.kind = "raise"
        /\ tbl' = r.tbl
        /\ iso' = [iso EXCEPT ![k] = alone.tbl]
        /\ acc' = IF written THEN TblSet(acc, k, composite) ELSE acc
        /\ pending' = IF ~written THEN pending
                      ELSE IF r.outcome.kind = "raise" /\ sufficiency_fn(composite)
                      THEN pending \cup {k}
                      ELSE pending \ {k}
        /\ last' = [op |-> "processor_function", fragment |-> new_message,
                    default |-> tbl_default, handler |-> handler,
                    absent |-> k \notin DOMAIN tbl, restart |-> Evicted(k),
                    unprocessed |-> k \in pending,
                    len_before |-> TblLen(tbl),
                    calls |-> r.calls, outcome |-> r.outcome,
                    alone |-> [calls |-> alone.calls, outcome |-> alone.outcome]]
        /\ UNCHANGED <<tbl_default, processor, store_kind, conc>>

(***************************************************************************)
(* The specifications.                                                     *)
(***************************************************************************)

\* The engine at work: a processor has been constructed (with or without an
\* incomplete handler) against an empty store with no default, and fragments
\* are submitted to it; any callable may raise.
Init ==
    /\ tbl = EmptyTable
    /\ tbl_default = None
    /\ processor \in {MakeOutcome(None, call).value :
                        call \in {c \in CallShapes : Bound(c)}}
    /\ last = [op |-> "none"]
    /\ acc = EmptyTable
    /\ pending = {}
    /\ iso = [k \in Keys |-> EmptyTable]
    /\ store_kind = "dict"
    /\ steps = <<>>
    /\ conc = NoWorkers

Next ==
    \E new_message \in Fragments, fail \in FailModes :
        processor_function(new_message, fail) /\ UNCHANGED steps

Spec == Init /\ [][Next]_vars

\* The caller's side: the store's default is set, make_joining_func is
\* called in every way the caller can call it, and whatever processor it
\* returned is given fragments (with callables that return).
InitMake ==
    /\ tbl = EmptyTable
    /\ tbl_default \in Defaults
    /\ processor = NoProcessor
    /\ last = [op |-> "none"]
    /\ acc = EmptyTable
    /\ pending = {}
    /\ iso = [k \in Keys |-> EmptyTable]
    /\ store_kind = "dict"
    /\ steps = <<>>
    /\ conc = NoWorkers

NextMake ==
    \/ \E d \in Defaults : SetDefault(d)
    \/ \E call \in CallShapes : make_joining_func(call)
    \/ \E new_message \in Fragments :
           processor_function(new_message, "none") /\ UNCHANGED steps

SpecMake == InitMake /\ [][NextMake]_vars

\* The engine at work with the caller constructing processors on the store
\* in use, in every way make_joining_func can be called.
NextLife ==
    \/ \E call \in CallShapes : make_joining_func(call)
    \/ \E new_message \in Fragments, fail \in FailModes :
           processor_function(new_message, fail) /\ UNCHANGED steps

SpecLife == Init /\ [][NextLife]_vars

(***************************************************************************)
(* processor_function line by line, for two calls in progress at once (the *)
(* engine holds no lock).  A worker's pc names the line it runs next.      *)
(***************************************************************************)

\* tbl.pop(k) is moved before process_fn(updated_message).
AfterStepPopFirst(pc, sufficient) ==
    CASE pc = "get"     -> "set"
      [] pc = "set"     -> "reread"
      [] pc = "reread"  -> "test"
      [] pc = "test"    -> IF sufficient THEN "pop" ELSE "handle"
      [] pc = "pop"     -> "process"
      [] pc = "process" -> "done"
      [] pc = "handle"  -> "done"

\* The order of the lines of processor_function: get (75-76), set (77),
\* reread (78), test (79), then process (80) and pop (81-82), or handle (83).
AfterStep(pc, sufficient) ==
    CASE pc = "get"     -> "set"
      [] pc = "set"     -> "reread"
      [] pc = "reread"  -> "test"
      [] pc = "test"    -> IF sufficient THEN "process" ELSE "handle"
      [] pc = "process" -> "pop"
      [] pc = "pop"     -> "done"
      [] pc = "handle"  -> "done"

\* A call that has run its first line and not its last.
InFlight(pc) == pc \notin {"get", "done"}

\* A worker about to run processor_function(new_message).
Worker(new_message) ==
    [pc |-> "get", new_message |-> new_message,
     extant_message |-> NoMessage, merged |-> NoMessage,
     updated_message |-> NoMessage, processed |-> NoMessage,
     outcome |-> Return(NoneValue), trace |-> <<>>]

\* dict raises KeyError on tbl[k] and tbl.pop(k) for a key it does not hold.
KeyError == Raised([exc |-> "KeyError"])

\* Worker i runs the line its pc names.
WorkerStep(i) ==
    LET w == conc.w[i]
        o == conc.w[3 - i]
        k == key_fn(w.new_message)
        handler == processor.incomplete_handler
        margs == MergeArguments(w.new_message, w.extant_message)
        sufficient == TakesProcessBranch(w.new_message, w.updated_message)
        next == AfterStep(w.pc, sufficient)
        stepped == [w EXCEPT !.pc = next, !.trace = Append(@, w.pc)]
        failed == [w EXCEPT !.pc = "done", !.trace = Append(@, w.pc),
                            !.outcome = KeyError]
        after ==
            CASE w.pc = "get" ->
                   [stepped EXCEPT !.extant_message = TblGet(tbl, k, w.new_message)]
              [] w.pc = "set" ->
                   [stepped EXCEPT !.merged = merge_fn(margs[1], margs[2])]
              [] w.pc = "reread" ->
                   IF k \in DOMAIN tbl
                   THEN [stepped EXCEPT !.updated_message = Updated(tbl, k, w.merged)]
                   ELSE failed
              [] w.pc = "test" -> stepped
              [] w.pc = "process" ->
                   LET processed == ProcessArgument(w.new_message, w.updated_message)
                   IN  [stepped EXCEPT !.processed = processed,
                                       !.outcome = Return(process_fn(processed))]
              [] w.pc = "pop" ->
                   IF k \in DOMAIN tbl THEN stepped ELSE failed
              [] w.pc = "handle" ->
                   [stepped EXCEPT
                       !.outcome = Return(RunIncompleteHandler(handler, w.updated_message))]
    IN  /\ conc.running
        /\ w.pc # "done"
        /\ tbl' = CASE w.pc = "set" ->
                         StoreWrite(store_kind, tbl, k, merge_fn(margs[1], margs[2]))
                    [] w.pc = "pop" /\ k \in DOMAIN tbl -> TblPop(tbl, k)
                    [] OTHER -> tbl
        /\ conc' = [conc EXCEPT
                       !.w[i] = after,
                       !.overlapped = @ \/ (InFlight(after.pc) /\ InFlight(o.pc))]
        /\ UNCHANGED <<tbl_default, processor, last, acc, pending, iso,
                       store_kind, steps>>

\* Two fragments are handed to two workers sharing an empty store.
InitConc ==
    /\ tbl = EmptyTable
    /\ tbl_default = None
    /\ processor \in {MakeOutcome(None, call).value :
                        call \in {c \in CallShapes : Bound(c)}}
    /\ last = [op |-> "none"]
    /\ acc = EmptyTable
    /\ pending = {}
    /\ iso = [k \in Keys |-> EmptyTable]
    /\ store_kind = "dict"
    /\ steps = <<>>
    /\ \E f1, f2 \in Fragments :
           conc = [running |-> TRUE, overlapped |-> FALSE,
                   w |-> <<Worker(f1), Worker(f2)>>]

NextConc == \E i \in {1, 2} : WorkerStep(i)

SpecConc == InitConc /\ [][NextConc]_vars

\* The engine over a store that normalizes what it is given on write.
InitNorm ==
    /\ tbl = EmptyTable
    /\ tbl_default = None
    /\ processor \in {MakeOutcome(None, call).value :
                        call \in {c \in CallShapes : Bound(c)}}
    /\ last = [op |-> "none"]
    /\ acc = EmptyTable
    /\ pending = {}
    /\ iso = [k \in Keys |-> EmptyTable]
    /\ store_kind = "normalizing"
    /\ steps = <<>>
    /\ conc = NoWorkers

NextNorm ==
    \E new_message \in Fragments :
        processor_function(new_message, "none") /\ UNCHANGED steps

SpecNorm == InitNorm /\ [][NextNorm]_vars

\* A fragment carrying exactly one of the two parts.
IsHalf(f) == Truthy(f.thing_one) # Truthy(f.thing_two)

\* The scenario of test_inner_joins: each id arrives as two complementary
\* fragments, in either order, the fragments of the two ids interleaved in
\* any way; len(dummy_tbl) is read after each submit.
TestSubmit(new_message) ==
    LET k == key_fn(new_message) IN
    /\ IsHalf(new_message)
    /\ \/ k \notin DOMAIN acc
       \/ /\ k \in DOMAIN acc
          /\ ~sufficiency_fn(acc[k])
          /\ sufficiency_fn(merge_fn(new_message, acc[k]))
    /\ processor_function(new_message, "none")
    /\ steps' = Append(steps, [fragment |-> new_message, len |-> TblLen(tbl')])

NextTest == \E new_message \in Fragments : TestSubmit(new_message)

SpecTest == Init /\ [][NextTest]_vars

(***************************************************************************)
(* Properties.                                                             *)
(***************************************************************************)

\* The last call was a submit.
Submitted == last.op = "processor_function"

\* The key of the last submitted fragment.
LastKey == key_fn(last.fragment)

\* The invocations of fn during the last submit, in order.
CallsOf(fn) == SelectSeq(last.calls, LAMBDA c : c.fn = fn)

\* The last submit ended with fn raising.
RaisedIn(fn) == last.outcome.kind = "raise" /\ last.calls[Len(last.calls)].fn = fn

\* The last submit returned to its caller.
Returned == Submitted /\ last.outcome.kind = "return"

\* C1 as stated: after any completed call and for every key, the key is in
\* the store if and only if the composite accumulated for it since its last
\* eviction is insufficient.
C1_PresentIffInsufficientEveryKey ==
    Returned =>
        \A k \in Keys :
            (k \in DOMAIN tbl) <=> (k \in DOMAIN acc /\ ~sufficiency_fn(acc[k]))

\* C1 amended: a key is in the store if and only if the composite
\* accumulated for it since its last eviction is insufficient, for every key
\* but those whose sufficient composite was written by a submit in which
\* sufficiency_fn or process_fn then raised and for which no submit has
\* completed since.
C1_PresentIffInsufficient ==
    \A k \in Keys \ pending :
        (k \in DOMAIN tbl) <=> (k \in DOMAIN acc /\ ~sufficiency_fn(acc[k]))

\* One key accumulating, the other evicted by the submit that just returned.
C1_Witness ==
    /\ Returned
    /\ LastKey \in DOMAIN acc /\ sufficiency_fn(acc[LastKey]) /\ LastKey \notin DOMAIN tbl
    /\ \E y \in Keys \ {LastKey} :
           y \in DOMAIN tbl /\ y \in DOMAIN acc /\ ~sufficiency_fn(acc[y])

\* C3: when a submit makes the accumulated composite of its key sufficient
\* and returns, the key is absent from the store and process_fn was invoked
\* exactly once in that submit, on the completed composite.
C3_CompletionEvicts ==
    (Returned /\ sufficiency_fn(acc[LastKey])) =>
        /\ LastKey \notin DOMAIN tbl
        /\ CallsOf("process_fn") = <<Call("process_fn", <<acc[LastKey]>>)>>

\* A second fragment completed a key that was in the store, with a composite
\* that differs from the fragment.
C3_Witness ==
    /\ Returned /\ ~last.absent
    /\ sufficiency_fn(acc[LastKey])
    /\ ~sufficiency_fn(last.fragment)
    /\ Len(CallsOf("process_fn")) = 1

\* C5: the first fragment submitted under a key after its eviction is merged
\* with itself, not with the evicted composite: the entry it leaves and the
\* message process_fn receives are merge_fn(fragment, fragment); and every
\* call of process_fn receives the composite accumulated since the key's
\* last eviction only.
C5_RestartAfterEviction ==
    /\ (Submitted /\ last.restart) =>
           /\ last.calls[1] = Call("merge_fn", <<last.fragment, last.fragment>>)
           /\ LastKey \in DOMAIN tbl =>
                  tbl[LastKey] = merge_fn(last.fragment, last.fragment)
           /\ \A i \in DOMAIN last.calls :
                  last.calls[i].fn = "process_fn" =>
                      last.calls[i].args = <<merge_fn(last.fragment, last.fragment)>>
    /\ Submitted =>
           \A i \in DOMAIN last.calls :
               last.calls[i].fn = "process_fn" => last.calls[i].args = <<acc[LastKey]>>

\* After an eviction (whose composite had both parts) the key holds an entry
\* with no second part.
C5_Witness ==
    /\ Returned /\ last.restart
    /\ LastKey \in DOMAIN tbl
    /\ tbl[LastKey].thing_two = None

\* C6: on a submit whose resulting composite is insufficient the incomplete
\* handler is invoked exactly once, on that composite, and process_fn is not
\* invoked; process_fn is never invoked on an insufficient composite.
C6_IncompletePath ==
    Submitted =>
        /\ (/\ ~RaisedIn("merge_fn") /\ ~RaisedIn("sufficiency_fn")
            /\ ~sufficiency_fn(acc[LastKey])) =>
               /\ CallsOf("incomplete_handler") =
                      <<Call("incomplete_handler", <<acc[LastKey]>>)>>
               /\ CallsOf("process_fn") = <<>>
        /\ \A i \in DOMAIN last.calls :
               last.calls[i].fn = "process_fn" => sufficiency_fn(last.calls[i].args[1])

\* A second insufficient fragment for a key in the store.
C6_Witness ==
    /\ Returned /\ ~last.absent
    /\ ~sufficiency_fn(acc[LastKey])
    /\ acc[LastKey] # merge_fn(last.fragment, last.fragment)
    /\ Len(CallsOf("incomplete_handler")) = 1

\* C10 as stated: a failing callable reaches the caller of submit as a
\* CallableFailure that wraps the original error and carries the key.
C10_WrappedInCallableFailure ==
    (Submitted /\ last.outcome.kind = "raise") =>
        /\ last.outcome.exc.exc = "CallableFailure"
        /\ last.outcome.exc.key = LastKey

\* C10 amended: the error of a failing callable reaches the caller of submit
\* as the callable raised it, neither wrapped nor given a key, and the engine
\* neither retries nor recovers: the failing invocation is the last one of
\* the submit and no callable is invoked twice.
C10_PropagatesUnwrapped ==
    (Submitted /\ last.outcome.kind = "raise") =>
        /\ last.outcome.exc = CallableError(last.calls[Len(last.calls)].fn)
        /\ \A i, j \in DOMAIN last.calls :
               last.calls[i].fn = last.calls[j].fn => i = j

\* process_fn raised on a completed composite.
C10_Witness ==
    /\ Submitted /\ last.outcome.kind = "raise"
    /\ last.calls[Len(last.calls)].fn = "process_fn"

\* C2: a call of make_joining_func that supplies the callables fails with the
\* join configuration error (TableJoinDefaultException), returning no
\* processor, whenever the store's default is anything but None, the empty
\* dict included; with a default of None it returns a processor.
C2_GuardDecidesConstruction ==
    (last.op = "make_joining_func" /\ Bound(last.call)) =>
        IF last.default = None
        THEN last.outcome.kind = "return" /\ last.outcome.value.built
        ELSE last.outcome = Raised([exc |-> "TableJoinDefaultException"])

\* Construction was refused for a store whose default is the empty dict.
C2_Witness ==
    /\ last.op = "make_joining_func" /\ Bound(last.call)
    /\ last.default = "{}"
    /\ last.outcome.kind = "raise"

\* C4: for a key with no entry, a fragment that alone is insufficient leaves
\* exactly one more entry in the store, under its key, equal to
\* merge_fn(fragment, fragment): the merge was given the fragment itself as
\* the existing value, whatever the store's default is by then.
C4_FirstArrivalMergesWithItself ==
    (Submitted /\ last.absent /\ ~sufficiency_fn(last.fragment)) =>
        /\ last.calls[1] = Call("merge_fn", <<last.fragment, last.fragment>>)
        /\ RaisedIn("merge_fn") \/ LastKey \in DOMAIN tbl
        /\ LastKey \in DOMAIN tbl =>
               /\ tbl[LastKey] = merge_fn(last.fragment, last.fragment)
               /\ TblLen(tbl) = last.len_before + 1

\* A first fragment stored while the store's default was no longer None.
C4_Witness ==
    /\ Returned /\ last.absent /\ last.default # None
    /\ last.len_before = 1
    /\ LastKey \in DOMAIN tbl
    /\ tbl[LastKey].thing_one = "" /\ tbl[LastKey].thing_two = None

\* C9 as stated: make_joining_func called with the store, key_fn, merge_fn and
\* sufficiency_fn only constructs a processor.
C9_FourArgumentCallConstructs ==
    (/\ last.op = "make_joining_func"
     /\ last.call = [process_fn |-> "omitted", handle_incomplete_fn |-> "omitted"]
     /\ last.default = None) =>
        last.outcome.kind = "return"

\* C7: submits for distinct keys do not interfere: each key's entry in the
\* store is the one left by running that key's submits alone, and each
\* submit invokes the callables and ends as it does in that run.
C7_KeysIndependent ==
    /\ \A k \in Keys :
           /\ (k \in DOMAIN tbl) <=> (k \in DOMAIN iso[k])
           /\ k \in DOMAIN tbl => tbl[k] = iso[k][k]
    /\ DOMAIN tbl \subseteq Keys
    /\ Submitted =>
           /\ last.calls = last.alone.calls
           /\ last.outcome = last.alone.outcome

\* A key was completed by its second fragment while the other key was in the
\* store, which still holds the other key's entry.
C7_Witness ==
    /\ Returned /\ ~last.absent /\ last.len_before = 2
    /\ LastKey \notin DOMAIN tbl
    /\ TblLen(tbl) = 1

\* C8: submit returns process_fn's result on the sufficient path and the
\* incomplete handler's result on the insufficient path; with no handler
\* supplied the insufficient path returns None and the entry stays as merged.
C8_ReturnValue ==
    Returned =>
        IF sufficiency_fn(acc[LastKey])
        THEN last.outcome.value = process_fn(acc[LastKey])
        ELSE /\ last.outcome.value =
                    IF last.handler = "handle_incomplete_fn"
                    THEN handle_incomplete_fn(acc[LastKey])
                    ELSE NoneValue
             /\ LastKey \in DOMAIN tbl /\ tbl[LastKey] = acc[LastKey]

\* An insufficient submit to a processor built without a handler.
C8_Witness ==
    /\ Returned /\ last.handler = "lambda"
    /\ ~sufficiency_fn(acc[LastKey])
    /\ last.outcome.value = NoneValue

\* C11: the engine never drops an entry silently: a step takes a key out of
\* the store only if it is a submit for that key that returned after
\* process_fn was invoked on that key's composite, one sufficiency_fn holds
\* of; construction, the insufficient path, a submit for another key and a
\* failing callable remove nothing.
C11_RemovedOnlyByCompletion ==
    [][\A k \in DOMAIN tbl :
          k \notin DOMAIN tbl' =>
              /\ last'.op = "processor_function"
              /\ key_fn(last'.fragment) = k
              /\ last'.outcome.kind = "return"
              /\ \E i \in DOMAIN last'.calls :
                     /\ last'.calls[i].fn = "process_fn"
                     /\ key_fn(last'.calls[i].args[1]) = k
                     /\ sufficiency_fn(last'.calls[i].args[1])]_vars

\* A key left in the store by a failing callable was taken out by a later
\* submit that completed, the other key's entry staying.
C11_Witness ==
    /\ Returned /\ last.unprocessed
    /\ LastKey \notin DOMAIN tbl
    /\ TblLen(tbl) = 1

\* C12: merge_fn is called with the newly arrived fragment first and the
\* entry the store held for its key (the fragment itself when it held none)
\* second, so a non-empty field of the fragment replaces the stored value of
\* that field and an empty one keeps it.
C12_NewFragmentFirst ==
    [][last'.op = "processor_function" =>
          LET f == last'.fragment
              k == key_fn(f)
              prior == IF k \in DOMAIN tbl THEN tbl[k] ELSE f
          IN  /\ last'.calls[1] = Call("merge_fn", <<f, prior>>)
              /\ Len(last'.calls) >= 2 =>
                     LET u == last'.calls[2].args[1] IN
                     /\ u.thing_one = IF Truthy(f.thing_one) THEN f.thing_one
                                      ELSE prior.thing_one
                     /\ u.thing_two = IF Truthy(f.thing_two) THEN f.thing_two
                                      ELSE prior.thing_two]_vars

\* A later fragment's thing_one replaced a different stored one.
C12_Witness ==
    /\ Returned /\ ~last.absent
    /\ last.calls[1].args[2].thing_one = "one fish"
    /\ last.fragment.thing_one = "sam"
    /\ LastKey \in DOMAIN tbl
    /\ tbl[LastKey].thing_one = "sam"

\* The ids that have had exactly one fragment among the first i submits of
\* the scenario.
HalfSeen(i) ==
    {k \in Keys : Cardinality({j \in 1..i : key_fn(steps[j].fragment) = k}) = 1}

\* C13: with the two-part composite, the field-wise merge and sufficiency =
\* both parts non-empty, starting from an empty store: the store holds one
\* entry after the first fragment of an id and none after its complement, in
\* either order, process_fn being invoked then with the composite holding
\* both parts; with two ids the size after each submit is the number of ids
\* half seen, 0,1,2,1,0 when they are interleaved.
C13_TestScenario ==
    /\ \A i \in DOMAIN steps : steps[i].len = Cardinality(HalfSeen(i))
    /\ (Len(steps) = 4 /\ key_fn(steps[1].fragment) # key_fn(steps[2].fragment)) =>
           <<steps[1].len, steps[2].len, steps[3].len, steps[4].len>> = <<1, 2, 1, 0>>
    /\ \A i, j \in DOMAIN steps :
           (i < j /\ j = Len(steps)
              /\ key_fn(steps[i].fragment) = key_fn(steps[j].fragment)) =>
               LET a == steps[i].fragment
                   b == steps[j].fragment
               IN  CallsOf("process_fn") =
                       <<Call("process_fn",
                              <<[thing_id   |-> key_fn(b),
                                 thing_one  |-> IF Truthy(a.thing_one) THEN a.thing_one
                                                ELSE b.thing_one,
                                 thing_two  |-> IF Truthy(a.thing_two) THEN a.thing_two
                                                ELSE b.thing_two,
                                 cat_in_hat |-> TRUE]>>)>>

\* The test's run: both ids half seen, then each completed, the second id's
\* parts arriving second part first.
C13_Witness ==
    /\ Len(steps) = 4
    /\ <<steps[1].len, steps[2].len, steps[3].len, steps[4].len>> = <<1, 2, 1, 0>>
    /\ steps[1].fragment.thing_one = "one fish"
    /\ steps[2].fragment.thing_two = "two fish"
    /\ tbl = EmptyTable

\* Both workers have finished.
BothDone == conc.running /\ conc.w[1].pc = "done" /\ conc.w[2].pc = "done"

\* The two workers' fragments have the same key.
SameKey == key_fn(conc.w[1].new_message) = key_fn(conc.w[2].new_message)

\* What became of the two fragments: the entry stored under their key and
\* the composites handed to process_fn.
Outputs ==
    LET k == key_fn(conc.w[1].new_message) IN
    {tbl[j] : j \in DOMAIN tbl \cap {k}}
        \cup {conc.w[i].processed : i \in {i \in {1, 2} : conc.w[i].processed # NoMessage}}

\* A part one of the two fragments supplied is in no stored or processed
\* composite.
LostUpdate ==
    \E i \in {1, 2} :
        \/ /\ Truthy(conc.w[i].new_message.thing_one)
           /\ \A c \in Outputs : ~Truthy(c.thing_one)
        \/ /\ Truthy(conc.w[i].new_message.thing_two)
           /\ \A c \in Outputs : ~Truthy(c.thing_two)

\* C14: with no lock across fetch, merge, write and evict, two submits for
\* one key whose lines interleave can lose one fragment's contribution (the
\* witness); two submits for one key that run one after the other never do.
C14_LostOnlyWhenInterleaved ==
    (BothDone /\ SameKey /\ LostUpdate) => conc.overlapped

\* Both workers stored their own half over the other's: the entry lacks the
\* part the first one supplied.
C14_Witness ==
    /\ BothDone /\ SameKey /\ LostUpdate
    /\ conc.w[1].outcome.kind = "return" /\ conc.w[2].outcome.kind = "return"
    /\ TblLen(tbl) = 1


IsPrefix(s, t) == Len(s) <= Len(t) /\ SubSeq(t, 1, Len(s)) = s

\* The lines a call has run so far are an initial part of one of the two
\* paths through processor_function.
InOrder(w) ==
    \/ IsPrefix(w.trace, <<"get", "set", "reread", "test", "process", "pop">>)
    \/ IsPrefix(w.trace, <<"get", "set", "reread", "test", "handle">>)

\* C16: within one submit the lines run in the order upsert, sufficiency
\* test, process_fn, delete: when process_fn is about to be invoked, and
\* still when it has returned and the delete has not run, the key is in the
\* store with the value handed to process_fn (no other call for that key
\* having run in between), and the delete never precedes process_fn.
C16_ProcessBeforeDelete ==
    conc.running =>
        \A i \in {1, 2} :
            LET w == conc.w[i]
                k == key_fn(w.new_message)
            IN  /\ InOrder(w)
                /\ (w.pc \in {"process", "pop"} /\ ~(SameKey /\ conc.overlapped)) =>
                       /\ k \in DOMAIN tbl
                       /\ tbl[k] = w.updated_message
                       /\ sufficiency_fn(tbl[k])
                /\ (w.pc = "pop" /\ ~(SameKey /\ conc.overlapped)) =>
                       tbl[k] = w.processed

\* process_fn has returned for the first call, whose key is still stored
\* with the value process_fn was given; the delete is the line to run next.
C16_Witness ==
    /\ conc.running /\ ~conc.overlapped
    /\ conc.w[1].pc = "pop"
    /\ conc.w[1].trace = <<"get", "set", "reread", "test", "process">>
    /\ key_fn(conc.w[1].new_message) \in DOMAIN tbl
    /\ tbl[key_fn(conc.w[1].new_message)] = conc.w[1].processed


C18_GuardOnlyAtConstruction ==
    /\ [][last'.op = "make_joining_func" => tbl' = tbl]_vars
    /\ [](Submitted =>
             /\ last.outcome # Raised([exc |-> "TableJoinDefaultException"])
             /\ last.outcome.kind = "return")

\* A submit completed a composite and returned while the store's default,
\* None when the processor was built, was a list.
C18_Witness ==
    /\ Returned /\ processor.built
    /\ last.default = "list"
    /\ ~last.absent
    /\ CallsOf("process_fn") # <<>>
    /\ LastKey \notin DOMAIN tbl


\* The store with every entry but that of k taken away.
OnlyEntryOf(t, k) == [j \in DOMAIN t \cap {k} |-> t[j]]

\* The callable that raised in the submit observed by l, "none" if it returned.
FailOf(l) ==
    IF l.outcome.kind = "raise" THEN l.calls[Len(l.calls)].fn ELSE "none"

\* C19: a submit of a fragment with key k touches only the entry of k: every
\* other key is in the store after the call exactly if it was before, with
\* the same entry, whether the call took the sufficient path, the
\* insufficient path or ended in a raising callable; and the calls it makes
\* and its outcome are those of the same submit on a store holding nothing
\* but the entry of k.
C19_OnlyOwnEntry ==
    [][last'.op = "processor_function" =>
          LET new_message == last'.fragment
              k == key_fn(new_message)
              own == Run(OnlyEntryOf(tbl, k), last'.handler, new_message, FailOf(last'))
          IN  /\ \A j \in Keys \ {k} :
                     /\ (j \in DOMAIN tbl') <=> (j \in DOMAIN tbl)
                     /\ j \in DOMAIN tbl => tbl'[j] = tbl[j]
              /\ last'.calls = own.calls
              /\ last'.outcome = own.outcome
              /\ OnlyEntryOf(tbl', k) = own.tbl]_vars

\* process_fn raised in a submit for one key while the other key had an
\* entry: both entries are in the store.
C19_Witness ==
    /\ Submitted /\ RaisedIn("process_fn")
    /\ last.len_before = 2
    /\ TblLen(tbl) = 2

=============================================================================
